---- MODULE Spec2Model ----
(***************************************************************************)
(* json_viz: src/src/json_viz/core.py.                                     *)
(*                                                                         *)
(* Five state machines share this module:                                  *)
(*   SpecClient     the in-page script that generate_html emits (column    *)
(*                  toggles, Toggle All, resampleData);                    *)
(*   SpecImage      JsonVisualizer.image_to_base64 / image_to_html called  *)
(*                  on one value, against a file system and a network;     *)
(*   SpecTransform  JsonVisualizer.visualize: read, sample, the two        *)
(*                  process_dataframe calls, generate_html, write;         *)
(*   SpecText       JsonVisualizer.process_textual_content called on one   *)
(*                  value;                                                 *)
(*   SpecRender     JsonVisualizer.generate_html called on its own, and    *)
(*                  the document it returns opened in a browser.           *)
(*                                                                         *)
(* Text is a sequence of one-character strings.                            *)
(***************************************************************************)
EXTENDS Integers, Sequences, FiniteSets, TLC

VARIABLES
    \* ---- the page (SpecClient) ----
    originalDataObj,  \* rows of the embedded full dataset, positions 0..totalRows-1
    colVisible,       \* column index -> BOOLEAN            (DataTables column.visible())
    btnClass,         \* column index -> classes on that column's toggle button
    tableRows,        \* rows the table displays, in order
    badge,            \* the number shown by the row-count badge
    resampleSize,     \* text of the #resampleSize field
    size,             \* resampleData's local: parseInt of the field
    indices,          \* resampleData's local: the index array being shuffled
    i,                \* resampleData's local: the shuffle loop variable
    sampledIndices,   \* resampleData's local: indices.slice(0, size)
    jsPc,             \* "idle" (between events) or "shuffle" (inside resampleData's loop)
    resampleControls, \* whether the page holds the #resampleControls element
    \* ---- one image normalisation (SpecImage) ----
    imgArg,           \* the value handed to the normaliser
    imgOut,           \* what the call produced: a result or a raised exception
    \* ---- one text normalisation (SpecText) ----
    textArg,          \* the value handed to process_textual_content
    textOut,          \* what the call returned
    \* ---- the environment of the Python side ----
    fs,               \* outcome of open(path, "rb") for the paths that are not simply absent
    net,              \* outcome of requests.get(url) followed by raise_for_status()
    \* ---- visualize (SpecTransform) ----
    pc,               \* position in visualize
    inputFile,        \* the input file: whether it parses, its columns and records
    opts,             \* sample_size, textual_cols, merge_cols, drop_cols
    df,               \* visualize's df (display set)
    original_df,      \* visualize's original_df (full set)
    lastCall,         \* the latest process_dataframe call: its argument object before
                      \* and after the call, and the passes run on each column
    raised,           \* the exception that ended visualize, or "none"
    html_content,     \* what generate_html returned
    outDir,           \* whether the output directory exists
    outFile           \* the output file: whether it exists, and its content

clientVars == <<originalDataObj, colVisible, btnClass, tableRows, badge, resampleSize,
                size, indices, i, sampledIndices, jsPc>>
imageVars == <<imgArg, imgOut>>
textVars == <<textArg, textOut>>
envVars == <<fs, net>>
pyVars == <<pc, inputFile, opts, df, original_df, lastCall, raised, html_content,
            outDir, outFile>>
vars == <<clientVars, resampleControls, imageVars, textVars, envVars, pyVars>>

\* ---------------------------------------------------------------- bounds
MaxRows == 3
NumCols == 2

\* ------------------------------------------------------- generic helpers
Range(f) == {f[x] : x \in DOMAIN f}

\* s[a..b] of a 1-based sequence, empty when a > b
Sub(s, a, b) == SubSeq(s, a, b)

\* the sequence f as a tuple, its elements evaluated once
Tuple(f) == <<>> \o f

StartsWith(s, p) == Len(s) >= Len(p) /\ Sub(s, 1, Len(p)) = p

\* does p occur in s from position k
OccursAt(s, p, k) ==
    k >= 1 /\ k + Len(p) - 1 <= Len(s) /\ \A j \in 1..Len(p) : s[k + j - 1] = p[j]

\* Python's `p in s` for strings
Contains(s, p) == \E k \in 1..(Len(s) + 1) : OccursAt(s, p, k)

\* all sequences over S of length at most n
SeqsUpTo(S, n) == UNION {[1..m -> S] : m \in 0..n}

\* ======================================================================
\*                         THE PAGE (custom_js)
\* ======================================================================
Cols == 0..(NumCols - 1)
\* the embedded rows: contents repeat, so equal rows sit at different positions
EmbeddedRows(n) == [k \in 1..n |-> IF k % 2 = 1 THEN "rowA" ELSE "rowB"]
\* a JavaScript number that came out of parseInt: NaN, or an integer
NaN == [nan |-> TRUE, v |-> 0]
Num(n) == [nan |-> FALSE, v |-> n]

\* What a user can leave in the #resampleSize field.
ResampleInputs ==
    { <<>>, <<"0">>, <<"1">>, <<"2">>, <<"4">>, <<"9">>, <<"-", "1">>, <<"a">>,
      <<" ", "3">>, <<"1", ".", "9">>, <<"0", "x", "2">> }

WhiteSpace == {" ", "\t", "\n"}
DecDigits == <<"0", "1", "2", "3", "4", "5", "6", "7", "8", "9">>
HexDigits == DecDigits \o <<"a", "b", "c", "d", "e", "f">>

DigitVal(c, digits) == CHOOSE d \in 0..(Len(digits) - 1) : digits[d + 1] = c
IsDigit(c, digits) == \E d \in 1..Len(digits) : digits[d] = c

RECURSIVE SkipWhiteSpace(_)
SkipWhiteSpace(s) ==
    IF s # <<>> /\ Head(s) \in WhiteSpace THEN SkipWhiteSpace(Tail(s)) ELSE s

\* the longest prefix of s made of digits, as a number in the radix; acc is the
\* value so far and seen says whether any digit was read
RECURSIVE ParseDigits(_, _, _, _)
ParseDigits(s, digits, acc, seen) ==
    IF s # <<>> /\ IsDigit(Head(s), digits)
    THEN ParseDigits(Tail(s), digits, acc * Len(digits) + DigitVal(Head(s), digits), TRUE)
    ELSE IF seen THEN Num(acc) ELSE NaN

\* ECMAScript parseInt(string) with no radix argument
parseInt(str) ==
    LET s1 == SkipWhiteSpace(str)
        neg == s1 # <<>> /\ Head(s1) = "-"
        s2 == IF s1 # <<>> /\ Head(s1) \in {"-", "+"} THEN Tail(s1) ELSE s1
        hex == StartsWith(s2, <<"0", "x">>) \/ StartsWith(s2, <<"0", "X">>)
        n == IF hex THEN ParseDigits(Sub(s2, 3, Len(s2)), HexDigits, 0, FALSE)
                    ELSE ParseDigits(s2, DecDigits, 0, FALSE)
    IN  IF n.nan THEN NaN ELSE IF neg THEN Num(0 - n.v) ELSE n

totalRows == Len(originalDataObj)

\* indices as a function on 0..totalRows-1
IdentityIndices == [k \in 0..(totalRows - 1) |-> k]

SizeAcceptedLoose(sz) == ~sz.nan /\ sz.v >= 0 /\ sz.v <= totalRows

\* if (size > 0 && size <= totalRows): every comparison with NaN is false
SizeAccepted(sz) == ~sz.nan /\ sz.v > 0 /\ sz.v <= totalRows

SwapNone(ix, a, b) == [ix EXCEPT ![a] = ix[b]]

\* [indices[i], indices[j]] = [indices[j], indices[i]]
Swap(ix, a, b) == [ix EXCEPT ![a] = ix[b], ![b] = ix[a]]

\* indices.slice(0, size).map(i => originalDataObj.data[i])
SampledData(ix, sz) == [k \in 1..sz |-> originalDataObj[ix[k - 1] + 1]]

\* the page's script touches nothing of the Python side
ClientFrame == UNCHANGED <<resampleControls, imageVars, textVars, envVars, pyVars>>

\* the user edits the field; nothing runs
TypeResampleSize ==
    /\ ClientFrame
    /\ jsPc = "idle"
    /\ \E v \in ResampleInputs : resampleSize' = v
    /\ UNCHANGED <<originalDataObj, colVisible, btnClass, tableRows, badge, size, indices,
                   i, sampledIndices, jsPc>>

\* window.resampleData up to the loop: parse, test, build the index array
resampleData ==
    /\ ClientFrame
    /\ jsPc = "idle"
    /\ size' = parseInt(resampleSize)
    /\ IF SizeAccepted(size')
       THEN /\ indices' = IdentityIndices
            /\ i' = totalRows - 1
            /\ jsPc' = "shuffle"
       ELSE UNCHANGED <<indices, i, jsPc>>
    /\ UNCHANGED <<originalDataObj, colVisible, btnClass, tableRows, badge, resampleSize,
                   sampledIndices>>

\* one iteration of the Fisher-Yates loop; j = floor(random() * (i + 1)) is any of 0..i
ShuffleSwap ==
    /\ ClientFrame
    /\ jsPc = "shuffle"
    /\ i > 0
    /\ \E j \in 0..i : indices' = Swap(indices, i, j)
    /\ i' = i - 1
    /\ UNCHANGED <<originalDataObj, colVisible, btnClass, tableRows, badge, resampleSize,
                   size, sampledIndices, jsPc>>

\* after the loop: slice, map, table.clear(), rows.add, draw, badge text; the
\* handler returns and its index array is gone
ResampleFinish ==
    /\ ClientFrame
    /\ jsPc = "shuffle"
    /\ ~(i > 0)
    /\ sampledIndices' = [k \in 0..(size.v - 1) |-> indices[k]]
    /\ tableRows' = SampledData(indices, size.v)
    /\ badge' = size.v
    /\ indices' = <<>>
    /\ i' = 0
    /\ jsPc' = "idle"
    /\ UNCHANGED <<originalDataObj, colVisible, btnClass, resampleSize, size>>

\* jQuery .toggleClass(names): each named class is removed if present, added if absent
ToggleClasses(cls, names) == (cls \ names) \cup (names \ cls)

\* jQuery .toggleClass(names, state): every named class is added (state true) or
\* removed (state false)
ToggleClassesState(cls, names, state) == IF state THEN cls \cup names ELSE cls \ names

ToggleNames == {"btn-primary", "btn-secondary"}

allVisible == \A c \in Cols : colVisible[c]

\* click on the button of column c
ColumnToggleClick(c) ==
    /\ ClientFrame
    /\ jsPc = "idle"
    /\ colVisible' = [colVisible EXCEPT ![c] = ~colVisible[c]]
    /\ btnClass' = [btnClass EXCEPT ![c] = ToggleClasses(btnClass[c], ToggleNames)]
    /\ UNCHANGED <<originalDataObj, tableRows, badge, resampleSize, size, indices, i,
                   sampledIndices, jsPc>>

\* what the Toggle All handler leaves on a per-column button
ToggleAllButtons(cls, av) == ToggleClassesState(cls, ToggleNames, ~av)

\* click on Toggle All
ToggleAllClick ==
    /\ ClientFrame
    /\ jsPc = "idle"
    /\ colVisible' = [c \in Cols |-> IF allVisible THEN FALSE ELSE TRUE]
    /\ btnClass' = [c \in Cols |-> ToggleAllButtons(btnClass[c], allVisible)]
    /\ UNCHANGED <<originalDataObj, tableRows, badge, resampleSize, size, indices, i,
                   sampledIndices, jsPc>>

\* visualize is not running
PythonIdle ==
    /\ pc = "none" /\ inputFile = "none" /\ opts = "none" /\ df = "none"
    /\ original_df = "none" /\ lastCall = "none" /\ raised = "none"
    /\ html_content = "none" /\ outDir = FALSE /\ outFile = "none"

\* process_textual_content is not being called
TextIdle == textArg = "none" /\ textOut = "none"

ClientIdle ==
    /\ imgArg = "none" /\ imgOut = "none"
    /\ TextIdle
    /\ fs = "none" /\ net = "none"
    /\ PythonIdle

\* the page as loaded: the table shows the display set (here the whole dataset,
\* sample_size omitted), every column visible, every button btn-primary
InitClient ==
    /\ \E n \in 0..MaxRows : originalDataObj = EmbeddedRows(n)
    /\ colVisible = [c \in Cols |-> TRUE]
    /\ btnClass = [c \in Cols |-> {"btn-primary"}]
    /\ tableRows = originalDataObj
    /\ badge = Len(originalDataObj)
    /\ resampleSize = <<>>
    /\ size = NaN
    /\ indices = <<>>
    /\ i = 0
    /\ sampledIndices = [k \in 0..(Len(originalDataObj) - 1) |-> k]
    /\ jsPc = "idle"
    /\ resampleControls = TRUE
    /\ ClientIdle

NextClient ==
    \/ TypeResampleSize
    \/ resampleData
    \/ ShuffleSwap
    \/ ResampleFinish
    \/ \E c \in Cols : ColumnToggleClick(c)
    \/ ToggleAllClick

SpecClient == InitClient /\ [][NextClient]_vars

\* ======================================================================
\*                    PYTHON VALUES AND TEXT OPERATIONS
\* ======================================================================
\* A Python value: t is its type, s the characters it holds, n the numbers.
\*   "str"      s: the characters            "int"      n: <<the integer>>
\*   "NoneType"                              "list"     n: the integers of a JSON array
\*   "bytes"    n: the bytes (0..255)        "Path"     s: the characters of the path
\*   "BytesIO"  n: the bytes in the buffer   "Image"    n: the bytes save(.., 'PNG') writes
Str(s) == [t |-> "str", s |-> s, n |-> <<>>]
Int_(n) == [t |-> "int", s |-> <<>>, n |-> <<n>>]
None == [t |-> "NoneType", s |-> <<>>, n |-> <<>>]
List(xs) == [t |-> "list", s |-> <<>>, n |-> xs]
Bytes(b) == [t |-> "bytes", s |-> <<>>, n |-> b]
PathObj(p) == [t |-> "Path", s |-> p, n |-> <<>>]
BytesIO(b) == [t |-> "BytesIO", s |-> <<>>, n |-> b]
PilImage(png) == [t |-> "Image", s |-> <<>>, n |-> png]

\* the backtick character (a TLA+ string cannot hold one)
BackTick == "BT"

UpperCase == <<"A", "B", "C", "D", "E", "F", "G", "H", "I", "J", "K", "L", "M",
               "N", "O", "P", "Q", "R", "S", "T", "U", "V", "W", "X", "Y", "Z">>
LowerCase == <<"a", "b", "c", "d", "e", "f", "g", "h", "i", "j", "k", "l", "m",
               "n", "o", "p", "q", "r", "s", "t", "u", "v", "w", "x", "y", "z">>

LowerChar(c) ==
    IF \E k \in 1..26 : UpperCase[k] = c
    THEN LowerCase[CHOOSE k \in 1..26 : UpperCase[k] = c]
    ELSE c

\* str.lower()
Lower(s) == Tuple([k \in 1..Len(s) |-> LowerChar(s[k])])

PyWhiteSpace == {" ", "\t", "\n", "\r"}

RECURSIVE LStrip(_)
LStrip(s) == IF s # <<>> /\ Head(s) \in PyWhiteSpace THEN LStrip(Tail(s)) ELSE s

RECURSIVE RStrip(_)
RStrip(s) ==
    IF s # <<>> /\ s[Len(s)] \in PyWhiteSpace THEN RStrip(Sub(s, 1, Len(s) - 1)) ELSE s

\* str.strip()
Strip(s) == RStrip(LStrip(s))

\* least position >= k where p occurs in s, 0 if none
Find(s, p, k) ==
    IF \E a \in k..(Len(s) + 1) : OccursAt(s, p, a)
    THEN CHOOSE a \in k..(Len(s) + 1) :
            OccursAt(s, p, a) /\ \A b \in k..(a - 1) : ~OccursAt(s, p, b)
    ELSE 0

\* str.replace(old, new), old not empty: leftmost occurrences, not overlapping
RECURSIVE Replace(_, _, _)
Replace(s, old, new) ==
    LET a == Find(s, old, 1)
    IN  IF a = 0 THEN s
        ELSE Sub(s, 1, a - 1) \o new \o Replace(Sub(s, a + Len(old), Len(s)), old, new)

\* sep.join(parts)
RECURSIVE Join(_, _)
Join(sep, parts) ==
    IF parts = <<>> THEN <<>>
    ELSE IF Len(parts) = 1 THEN parts[1]
    ELSE parts[1] \o sep \o Join(sep, Tail(parts))

RECURSIVE NatToStr(_)
NatToStr(n) ==
    IF n < 10 THEN <<DecDigits[n + 1]>> ELSE NatToStr(n \div 10) \o <<DecDigits[(n % 10) + 1]>>

\* str(n) of an int
IntToStr(n) == IF n < 0 THEN <<"-">> \o NatToStr(0 - n) ELSE NatToStr(n)

\* json.dumps(xs, indent=2, ensure_ascii=False) of a list of integers
JsonDumps(xs) ==
    IF xs = <<>> THEN <<"[", "]">>
    ELSE <<"[", "\n", " ", " ">> \o Join(<<",", "\n", " ", " ">>, [k \in 1..Len(xs) |-> IntToStr(xs[k])]) \o <<"\n", "]">>

\* str(x) of a value a cell can hold
PyStr(x) ==
    CASE x.t = "str" -> x.s
      [] x.t = "int" -> IntToStr(x.n[1])
      [] x.t = "NoneType" -> <<"N", "o", "n", "e">>
      [] x.t = "list" ->
            <<"[">> \o Join(<<",", " ">>, [k \in 1..Len(x.n) |-> IntToStr(x.n[k])]) \o <<"]">>

\* ------------------------------------------- process_textual_content
Fence == <<BackTick, BackTick, BackTick>>

\* text.split('\n', 1)[0]
FirstLine(s) ==
    IF \E k \in 1..Len(s) : s[k] = "\n"
    THEN Sub(s, 1, (CHOOSE k \in 1..Len(s) : s[k] = "\n" /\ \A m \in 1..(k - 1) : s[m] # "\n") - 1)
    ELSE s

\* first position >= k that holds no white space (Len(s) + 1 if none): greedy \s*
RECURSIVE SkipSpace(_, _)
SkipSpace(s, k) == IF k <= Len(s) /\ s[k] \in PyWhiteSpace THEN SkipSpace(s, k + 1) ELSE k

\* start of the white space that ends just before position w, not below lo
RECURSIVE SpaceStart(_, _, _)
SpaceStart(s, w, lo) ==
    IF w > lo /\ s[w - 1] \in PyWhiteSpace THEN SpaceStart(s, w - 1, lo) ELSE w

\* second group of every match of ```(markdown)?\s*(.*?)\s*``` (re.DOTALL) in s,
\* scanning from position k: re.findall(pattern, text, re.DOTALL)
RECURSIVE FindAllBlocks(_, _)
FindAllBlocks(s, k) ==
    LET a == Find(s, Fence, k)
        p == IF a # 0 /\ OccursAt(s, <<"m", "a", "r", "k", "d", "o", "w", "n">>, a + 3) THEN a + 11 ELSE a + 3
        q == SkipSpace(s, p)
        w == Find(s, Fence, q)
        e == SpaceStart(s, w, q)
    IN  IF a = 0 \/ w = 0 THEN <<>>
        ELSE <<Sub(s, q, e - 1)>> \o FindAllBlocks(s, w + 3)

\* the code block that replaces the text, or the text itself
ExtractBlock(text, is_markdown) ==
    IF is_markdown \/ (text # <<>> /\ Contains(FirstLine(text), Fence))
    THEN LET extracted == SelectSeq(FindAllBlocks(text, 1), LAMBDA g : g # <<>>)
         IN  IF extracted # <<>> THEN extracted[1] ELSE text
    ELSE text

special_tags ==
    << <<"<", "i", "m", "a", "g", "e", ">">>, <<"<", "i", "m", "g", ">">>, <<"<", "t", "h", "i", "n", "k", ">">>, <<"<", "/", "t", "h", "i", "n", "k", ">">>, <<"<", "a", "n", "s", "w", "e",
                                                            "r", ">">>, <<"<", "/", "a",
                                                                          "n", "s", "w",
                                                                          "e", "r", ">">>,
       <<"<", "o", "b", "s", "e", "r", "v", "e", ">">>, <<"<", "/", "o", "b", "s", "e", "r", "v", "e", ">">>, <<"<", "h", "i", "g", "h", "l", "i", "g", "h", "t",
                                        ">">>, <<"<", "/", "h", "i", "g", "h", "l",
                                                         "i", "g", "h", "t", ">">> >>

\* tag.replace('<', '&lt;').replace('>', '&gt;')
EscapeTag(tag) == Replace(Replace(tag, <<"<">>, <<"&", "l", "t", ";">>), <<">">>, <<"&", "g", "t", ";">>)

RECURSIVE EscapeTags(_, _)
EscapeTags(text, tags) ==
    IF tags = <<>> THEN text
    ELSE EscapeTags(Replace(text, Head(tags), EscapeTag(Head(tags))), Tail(tags))

\* variant: the greedy pattern \$(.*)\$, pairing the first dollar with the last
MathSubGreedy(s) ==
    LET ds == {k \in 1..Len(s) : s[k] = "$"}
        a == IF ds = {} THEN 0 ELSE CHOOSE k \in ds : \A m \in ds : k <= m
        b == IF ds = {} THEN 0 ELSE CHOOSE k \in ds : \A m \in ds : m <= k
    IN  IF a = b THEN s
        ELSE Sub(s, 1, a - 1) \o <<"\\", "(", " ">> \o Sub(s, a + 1, b - 1) \o <<" ", "\\", ")">>
                 \o Sub(s, b + 1, Len(s))

\* re.sub(r'\$(.*?)\$', r'\( \1 \)', text): "." matches anything but a newline
RECURSIVE MathSub(_)
MathSub(s) ==
    LET a == Find(s, <<"$">>, 1)
        b == IF a = 0 THEN 0 ELSE Find(s, <<"$">>, a + 1)
    IN  IF a = 0 \/ b = 0 THEN s
        ELSE IF \E k \in (a + 1)..(b - 1) : s[k] = "\n"
        THEN Sub(s, 1, a) \o MathSub(Sub(s, a + 1, Len(s)))
        ELSE Sub(s, 1, a - 1) \o <<"\\", "(", " ">> \o Sub(s, a + 1, b - 1) \o <<" ", "\\", ")">>
                 \o MathSub(Sub(s, b + 1, Len(s)))

\* JsonVisualizer.process_textual_content(text, is_markdown)
process_textual_content(x, is_markdown) ==
    LET t0 == IF x.t # "str" THEN PyStr(x) ELSE x.s
        t1 == ExtractBlock(t0, is_markdown)
        t2 == Replace(Replace(Strip(t1), <<"\n">>, <<"<", "b", "r", ">">>), <<"\\", "n">>, <<"<", "b", "r",
                                                                             ">">>)
        t3 == EscapeTags(t2, special_tags)
        t4 == Replace(t3, <<"$", "$">>, <<"$">>)
    IN  Str(MathSub(t4))

\* ======================================================================
\*                image_to_base64 / image_to_html  (SpecImage)
\* ======================================================================
Base64Alphabet == UpperCase \o LowerCase \o DecDigits \o <<"+", "/">>

B64Char(n) == Base64Alphabet[n + 1]

\* base64.b64encode(b).decode('utf-8')
RECURSIVE b64encode(_)
b64encode(b) ==
    IF Len(b) = 0 THEN <<>>
    ELSE IF Len(b) = 1
    THEN <<B64Char(b[1] \div 4), B64Char((b[1] % 4) * 16), "=", "=">>
    ELSE IF Len(b) = 2
    THEN <<B64Char(b[1] \div 4), B64Char((b[1] % 4) * 16 + (b[2] \div 16)),
           B64Char((b[2] % 16) * 4), "=">>
    ELSE <<B64Char(b[1] \div 4), B64Char((b[1] % 4) * 16 + (b[2] \div 16)),
           B64Char((b[2] % 16) * 4 + (b[3] \div 64)), B64Char(b[3] % 64)>>
         \o b64encode(Sub(b, 4, Len(b)))

\* ---- the environment -------------------------------------------------
\* The one path of the file system that may be something else than absent; open()
\* of any other path raises FileNotFoundError.
KnownPath == <<"p", ".", "p", "n", "g">>

\* what open(KnownPath, "rb").read() does: its bytes, or the OSError it raises
FsOutcomes ==
    { [exc |-> "none", b |-> <<137, 80, 78, 71>>],
      [exc |-> "none", b |-> <<>>],
      [exc |-> "FileNotFoundError", b |-> <<>>],
      [exc |-> "IsADirectoryError", b |-> <<>>] }

\* what requests.get(url) and response.raise_for_status() do: the body, or
\* ConnectionError (get) or HTTPError (raise_for_status)
NetOutcomes ==
    { [exc |-> "none", b |-> <<255, 216>>],
      [exc |-> "none", b |-> <<>>],
      [exc |-> "ConnectionError", b |-> <<>>],
      [exc |-> "HTTPError", b |-> <<>>] }

\* open(path, "rb") and read()
OpenRead(path) ==
    IF path = KnownPath THEN fs ELSE [exc |-> "FileNotFoundError", b |-> <<>>]

\* a returned value or a raised exception
Return(x) == [exc |-> "none", val |-> x]
Raise(e) == [exc |-> e, val |-> None]

\* Python truth value: bool(x)
Truthy(x) ==
    CASE x.t = "str" -> x.s # <<>>
      [] x.t \in {"bytes", "list"} -> x.n # <<>>
      [] x.t = "int" -> x.n # <<0>>
      [] x.t = "NoneType" -> FALSE
      [] OTHER -> TRUE

IsUrl(s) == StartsWith(s, <<"h", "t", "t", "p", ":", "/", "/">>) \/ StartsWith(s, <<"h", "t", "t", "p", "s", ":",
                                                          "/", "/">>)

ReadLocalUncaught(path) ==
    LET o == OpenRead(path)
    IN  IF o.exc = "none" THEN Return(Bytes(o.b)) ELSE Raise(o.exc)

\* try: open(..).read()  except FileNotFoundError: byte_arr = b''
ReadLocal(path) ==
    LET o == OpenRead(path)
    IN  IF o.exc = "none" THEN Return(Bytes(o.b))
        ELSE IF o.exc = "FileNotFoundError" THEN Return(Bytes(<<>>))
        ELSE Raise(o.exc)

\* requests.get(url); response.raise_for_status(); response.content
Fetch(url) == IF net.exc = "none" THEN Return(Bytes(net.b)) ELSE Raise(net.exc)

\* image_to_base64's byte_arr for each kind of argument
ByteArr(x) ==
    CASE x.t = "str" -> IF IsUrl(x.s) THEN Fetch(x.s) ELSE ReadLocal(x.s)
      [] x.t = "Path" -> ReadLocal(x.s)
      [] x.t = "BytesIO" -> Return(Bytes(x.n))
      [] x.t = "Image" -> Return(Bytes(x.n))
      [] OTHER -> Return(Bytes(<<>>))

\* JsonVisualizer.image_to_base64(image_path_or_sth, to_base64)
image_to_base64(x, to_base64) ==
    LET r == ByteArr(x)
    IN  IF r.exc # "none" THEN r
        ELSE IF to_base64 /\ Truthy(r.val) THEN Return(Str(b64encode(r.val.n)))
        ELSE r

NoImageAvailable == <<"<", "d", "i", "v", " ", "c", "l", "a", "s", "s", "=", "\"", "m",
                      "i", "s", "s", "i", "n", "g", "-", "i", "m", "a", "g", "e", "\"",
                      ">", "N", "o", " ", "i", "m", "a", "g", "e", " ", "a", "v", "a", "i",
                      "l", "a", "b", "l", "e", "<", "/", "d", "i", "v", ">">>
ImageNotFound == <<"<", "d", "i", "v", " ", "c", "l", "a", "s", "s", "=", "\"", "m", "i",
                   "s", "s", "i", "n", "g", "-", "i", "m", "a", "g", "e", "\"", ">", "I",
                   "m", "a", "g", "e", " ", "n", "o", "t", " ", "f", "o", "u", "n", "d",
                   "<", "/", "d", "i", "v", ">">>

DefaultWidth == 320

ImgTemplate(encoded, width) ==
    <<"<", "i", "m", "g", " ", "s", "r", "c", "=", "\"", "d", "a", "t", "a", ":", "i", "m",
      "a", "g", "e", "/", "p", "n", "g", ";", "b", "a", "s", "e", "6", "4", ",">> \o encoded \o <<"\"", " ", "w", "i", "d", "t",
                                                         "h", "=", "\"">> \o IntToStr(width)
        \o <<"\"", " ", "a", "l", "t", "=", "\"", "E", "m", "b", "e", "d", "d", "e", "d",
             " ", "I", "m", "a", "g", "e", "\"", ">">>

\* image_to_html after image_to_base64 returned r
EncodedOrPlaceholder(r, width) ==
    IF ~Truthy(r.val) THEN Return(Str(ImageNotFound))
    ELSE Return(Str(ImgTemplate(r.val.s, width)))

\* JsonVisualizer.image_to_html(image_path_or_sth, width)
image_to_html(x, width) ==
    IF x.t \notin {"str", "Path", "BytesIO", "Image"} \/ ~Truthy(x)
    THEN Return(Str(NoImageAvailable))
    ELSE LET r == image_to_base64(x, TRUE)
         IN  IF r.exc # "none" THEN r ELSE EncodedOrPlaceholder(r, width)

\* the values a caller hands to the normaliser
ImageArgs ==
    { Str(<<>>), Str(KnownPath), Str(<<"g", "o", "n", "e", ".", "p", "n", "g">>), Str(<<"h", "t", "t", "p", ":", "/",
                                                          "/", "h", "/", "a", ".", "p",
                                                          "n", "g">>),
      Str(<<"h", "t", "t", "p", "s", ":", "/", "/", "h", "/", "a", ".", "p", "n", "g">>), Str(<<"h", "t", "t", "p", ":", "/", "h">>), Str(<<"H", "T", "T", "P", ":", "/", "/",
                                                        "h", "/", "a", ".", "p", "n", "g">>),
      PathObj(KnownPath), PathObj(<<"g", "o", "n", "e", ".", "p", "n", "g">>),
      BytesIO(<<>>), BytesIO(<<71, 73, 70>>), PilImage(<<137, 80, 78, 71, 13>>),
      None, Int_(0), Int_(7), List(<<1>>) }

NotCalled == [fn |-> "none", exc |-> "none", val |-> None]

ImageFrame ==
    UNCHANGED <<clientVars, resampleControls, textVars, envVars, pyVars, imgArg>>

\* a caller invokes image_to_html(imgArg)
CallImageToHtml ==
    /\ ImageFrame
    /\ imgOut.fn = "none"
    /\ LET r == image_to_html(imgArg, DefaultWidth)
       IN  imgOut' = [fn |-> "image_to_html", exc |-> r.exc, val |-> r.val]

\* a caller invokes image_to_base64(imgArg, to_base64)
CallImageToBase64 ==
    /\ ImageFrame
    /\ imgOut.fn = "none"
    /\ \E to_base64 \in BOOLEAN :
          LET r == image_to_base64(imgArg, to_base64)
              fn == IF to_base64 THEN "image_to_base64" ELSE "image_to_bytes"
          IN  imgOut' = [fn |-> fn, exc |-> r.exc, val |-> r.val]

\* no page is open
PageIdle ==
    /\ originalDataObj = <<>> /\ colVisible = <<>> /\ btnClass = <<>> /\ tableRows = <<>>
    /\ badge = 0 /\ resampleSize = <<>> /\ size = NaN /\ indices = <<>> /\ i = 0
    /\ sampledIndices = <<>> /\ jsPc = "idle" /\ resampleControls = FALSE

ImageIdle == PageIdle /\ PythonIdle /\ TextIdle

InitImage ==
    /\ imgArg \in ImageArgs
    /\ fs \in FsOutcomes
    /\ net \in NetOutcomes
    /\ imgOut = NotCalled
    /\ ImageIdle

NextImage ==
    \/ CallImageToHtml
    \/ CallImageToBase64

SpecImage == InitImage /\ [][NextImage]_vars

\* ======================================================================
\*                 DATA FRAMES AND process_dataframe
\* ======================================================================
\* A pandas DataFrame object: id tells objects apart (an operation done in place
\* keeps it, one that builds a new frame gives a new one), columns are the column
\* names in order, index the row labels, data[r][c] the cell of row r, column c.
NoFrame == [id |-> 0, columns |-> <<>>, index |-> <<>>, data |-> <<>>]

Rows(d) == 1..Len(d.data)
ColIdx(d) == 1..Len(d.columns)

InList(x, list) == \E k \in 1..Len(list) : list[k] = x

\* col in df.columns
HasColumn(d, name) == InList(name, d.columns)

ColPos(d, name) == CHOOSE c \in ColIdx(d) : d.columns[c] = name

DfCopyAlias(d) == d

\* df.copy()
DfCopy(d) == [d EXCEPT !.id = d.id + 1]

\* df[name] = vals, in place: an existing column is overwritten where it stands, a
\* new one is appended
AssignColumn(d, name, vals) ==
    IF HasColumn(d, name)
    THEN [d EXCEPT !.data = [r \in Rows(d) |->
                                [d.data[r] EXCEPT ![ColPos(d, name)] = vals[r]]]]
    ELSE [d EXCEPT !.columns = Append(d.columns, name),
                   !.data = [r \in Rows(d) |-> Append(d.data[r], vals[r])]]

\* df[names]: a new frame with the named columns in the order given
SelectColumns(d, names) ==
    [id |-> d.id + 1,
     columns |-> names,
     index |-> d.index,
     data |-> [r \in Rows(d) |-> [k \in 1..Len(names) |-> d.data[r][ColPos(d, names[k])]]]]

\* positions of the columns of d that names does not hold
KeptPositions(d, names) ==
    SelectSeq([c \in ColIdx(d) |-> c], LAMBDA c : ~InList(d.columns[c], names))

\* df.drop(columns=names): KeyError for a label that is no column, else a new
\* frame without the named columns
PandasDrop(d, names) ==
    IF \E k \in 1..Len(names) : ~HasColumn(d, names[k])
    THEN [exc |-> "KeyError", df |-> d]
    ELSE LET keep == KeptPositions(d, names)
         IN  [exc |-> "none",
              df |-> [id |-> d.id + 1,
                      columns |-> [k \in 1..Len(keep) |-> d.columns[keep[k]]],
                      index |-> d.index,
                      data |-> [r \in Rows(d) |->
                                  [k \in 1..Len(keep) |-> d.data[r][keep[k]]]]]]

\* ---- pass 1: object columns ------------------------------------------
\* isinstance(x, (dict, list))
IsStructured(x) == x.t = "list"

\* df[col].apply(lambda x: isinstance(x, (dict, list))).any()
ColumnHasStructured(d, c) == \E r \in Rows(d) : IsStructured(d.data[r][c])

StructuredCellAlways(x) ==
    IF IsStructured(x)
    THEN Str(Replace(Replace(JsonDumps(x.n), <<"\n">>, <<"<", "b", "r", ">">>), <<" ">>, <<"&", "n", "b",
                                                                         "s", "p", ";">>))
    ELSE Str(<<"\"">> \o PyStr(x) \o <<"\"">>)

\* json.dumps(x, indent=2, ensure_ascii=False).replace('\n', '<br>')
\*     .replace(' ', '&nbsp;') if isinstance(x, (dict, list)) else x
StructuredCell(x) ==
    IF IsStructured(x)
    THEN Str(Replace(Replace(JsonDumps(x.n), <<"\n">>, <<"<", "b", "r", ">">>), <<" ">>, <<"&", "n", "b",
                                                                         "s", "p", ";">>))
    ELSE x

StructuredPass(d) ==
    LET structured == Tuple([c \in ColIdx(d) |-> ColumnHasStructured(d, c)])
    IN  [d EXCEPT !.data = Tuple([r \in Rows(d) |-> Tuple([c \in ColIdx(d) |->
            IF structured[c] THEN StructuredCell(d.data[r][c]) ELSE d.data[r][c]])])]

\* ---- pass 2: image columns -------------------------------------------
\* 'image' in col.lower() or 'graph' in col.lower()
IsImageColumn(col) ==
    LET lower == Lower(col)
    IN  Contains(lower, <<"i", "m", "a", "g", "e">>) \/ Contains(lower, <<"g", "r", "a", "p", "h">>)

\* image_to_html of every cell of the image columns (the other cells as they are)
ImageResults(d) ==
    LET image == Tuple([c \in ColIdx(d) |-> IsImageColumn(d.columns[c])])
    IN  Tuple([r \in Rows(d) |-> Tuple([c \in ColIdx(d) |->
            IF image[c] THEN image_to_html(d.data[r][c], DefaultWidth)
            ELSE Return(d.data[r][c])])])

\* The image loop on d, res being what image_to_html does on its cells. The loop
\* meets the cells column by column, row by row; the first cell that raises ends
\* it, the columns before that one assigned. exc is the exception ("none" when
\* the loop ends normally), df the frame as the loop leaves it.
ImageLoop(d, res) ==
    LET bad == {rc \in Rows(d) \X ColIdx(d) : res[rc[1]][rc[2]].exc # "none"}
        first == CHOOSE rc \in bad :
                    \A o \in bad : rc[2] < o[2] \/ (rc[2] = o[2] /\ rc[1] <= o[1])
        upTo == IF bad = {} THEN Len(d.columns) + 1 ELSE first[2]
    IN  [exc |-> IF bad = {} THEN "none" ELSE res[first[1]][first[2]].exc,
         df |-> [d EXCEPT !.data = Tuple([r \in Rows(d) |-> Tuple([c \in ColIdx(d) |->
                    IF c < upTo THEN res[r][c].val ELSE d.data[r][c]])])]]

ImagePass(d) == ImageLoop(d, ImageResults(d))

\* ---- pass 3: text columns --------------------------------------------
DefaultTextualCols == << <<"q", " ", "&", " ", "a">>, <<"r", "e", "s", "u", "l", "t">>, <<"q", "u", "e", "s", "t", "i", "o", "n">>, <<"a", "n", "s", "w", "e", "r">> >>

TextualPatternsNoCaption ==
    << <<"r", "e", "s", "u", "l", "t">>, <<"p", "r", "o", "m", "p", "t">>, <<"q", "u", "e", "s", "t", "i", "o", "n">>, <<"a", "n", "s", "w", "e", "r">>, <<"q", " ", "&", " ", "a">>, <<"p", "r", "e", "d",
                                                                      "i", "c", "t">>,
       <<"j", "u", "d", "g", "e">>, <<"c", "o", "t">>, <<"c", "l", "a", "u", "d", "e">>, <<"r", "e", "s">>, <<"p", "a", "r", "s", "e">>,
       <<"t", "r", "u", "t", "h">>, <<"d", "e", "s", "c">>, <<"i", "n", "f", "o">> >>

TextualPatterns ==
    << <<"r", "e", "s", "u", "l", "t">>, <<"p", "r", "o", "m", "p", "t">>, <<"q", "u", "e", "s", "t", "i", "o", "n">>, <<"a", "n", "s", "w", "e", "r">>, <<"q", " ", "&", " ", "a">>, <<"p", "r", "e", "d",
                                                                      "i", "c", "t">>,
       <<"j", "u", "d", "g", "e">>, <<"c", "a", "p", "t", "i", "o", "n">>, <<"c", "o", "t">>, <<"c", "l", "a", "u", "d", "e">>, <<"r", "e", "s">>, <<"p", "a", "r", "s", "e">>,
       <<"t", "r", "u", "t", "h">>, <<"d", "e", "s", "c">>, <<"i", "n", "f", "o">> >>

is_textual(col, textual_cols) ==
    LET lower == Lower(col)
    IN  \/ InList(col, textual_cols)
        \/ InList(lower, textual_cols)
        \/ \E k \in 1..Len(TextualPatterns) : Contains(lower, TextualPatterns[k])

TextPass(d, textual_cols) ==
    LET textual == Tuple([c \in ColIdx(d) |-> is_textual(d.columns[c], textual_cols)])
    IN  [d EXCEPT !.data = Tuple([r \in Rows(d) |-> Tuple([c \in ColIdx(d) |->
            IF textual[c] THEN process_textual_content(d.data[r][c], FALSE)
            ELSE d.data[r][c]])])]

\* the normalisers the three loops run on column c of d, in order
PassesOn(d, c, textual_cols) ==
    (IF ColumnHasStructured(d, c) THEN <<"structured">> ELSE <<>>)
    \o (IF IsImageColumn(d.columns[c]) THEN <<"image">> ELSE <<>>)
    \o (IF is_textual(d.columns[c], textual_cols) THEN <<"textual">> ELSE <<>>)

\* ---- merge and drop ---------------------------------------------------
\* An optional list argument: none says it was None.
NoneArg == [none |-> TRUE, v |-> <<>>]
ListArg(xs) == [none |-> FALSE, v |-> xs]

\* [col for col in names if col in df.columns]
PresentIn(d, names) == SelectSeq(names, LAMBDA c : HasColumn(d, c))

MergeSeparator == <<"<", "b", "r", ">">>

\* '<br>'.join([str(x[col]) for col in valid_merge_cols]) for every row
MergedValues(d, valid) ==
    Tuple([r \in Rows(d) |->
        Str(Join(MergeSeparator,
                 Tuple([k \in 1..Len(valid) |-> PyStr(d.data[r][ColPos(d, valid[k])])])))])

\* cols.remove(name): the list without the first name
RemoveFirst(cols, name) ==
    LET p == CHOOSE k \in 1..Len(cols) : cols[k] = name /\ \A m \in 1..(k - 1) : cols[m] # name
    IN  Sub(cols, 1, p - 1) \o Sub(cols, p + 1, Len(cols))

\* merge_cols and len(merge_cols) > 1, and then len(valid_merge_cols) > 1
MergeWanted(merge_cols, valid) ==
    ~merge_cols.none /\ Len(merge_cols.v) > 1 /\ Len(valid) > 1

MovedToBack(name, cols) == cols \o <<name>>

\* [new_col_name] + cols
MovedToFront(name, cols) == <<name>> \o cols

\* the merge step: inplace is the frame after df[new_col_name] = ... (the same
\* object as d), df the frame the step leaves in the variable df
MergeStep(d, merge_cols) ==
    LET valid == PresentIn(d, merge_cols.v)
        new_col_name == Join(<<" ", "&", " ">>, valid)
        assigned == AssignColumn(d, new_col_name, MergedValues(d, valid))
        dropped == PandasDrop(assigned, valid).df
        cols == RemoveFirst(dropped.columns, new_col_name)
    IN  IF MergeWanted(merge_cols, valid)
        THEN [inplace |-> assigned,
              df |-> SelectColumns(dropped, MovedToFront(new_col_name, cols))]
        ELSE [inplace |-> d, df |-> d]

DropListUnfiltered(d, drop_cols) == drop_cols

\* [col for col in drop_cols if col in df.columns]
DropList(d, drop_cols) == PresentIn(d, drop_cols)

\* if drop_cols: df = df.drop(columns=[...])
DropStep(d, drop_cols) ==
    IF drop_cols # <<>> THEN PandasDrop(d, DropList(d, drop_cols))
    ELSE [exc |-> "none", df |-> d]

\* the drop step on what the merge step m left: exc the exception raised ("none"
\* if none), df the frame returned, inplace the argument's copy as it is left
MergeAndDrop(m, drop_cols) ==
    LET dr == DropStep(m.df, drop_cols)
    IN  [exc |-> dr.exc,
         df |-> IF dr.exc # "none" THEN NoFrame ELSE dr.df,
         inplace |-> m.inplace]

\* the text loop, the merge and the drop after the image loop ended as img says
AfterImageLoop(img, textual_cols, merge_cols, drop_cols) ==
    IF img.exc # "none"
    THEN [exc |-> img.exc, df |-> NoFrame, inplace |-> img.df]
    ELSE MergeAndDrop(MergeStep(TextPass(img.df, textual_cols), merge_cols), drop_cols)

\* what the caller sees of a call that worked on the copy work of d and ended as
\* out says:
\*   exc     the exception it raises, or "none"
\*   df      the frame it returns
\*   arg     the argument object as the call leaves it
\*   passes  the normalisers run on each column of the argument
CallOutcome(d, work, out, textual_cols) ==
    [exc |-> out.exc,
     df |-> out.df,
     arg |-> IF work.id = d.id THEN out.inplace ELSE d,
     passes |-> [c \in ColIdx(d) |-> PassesOn(d, c, textual_cols)]]

\* lines 159-199 on the copy work of d
ProcessCopy(d, work, textual_cols, merge_cols, drop_cols) ==
    CallOutcome(d, work,
                AfterImageLoop(ImagePass(StructuredPass(work)), textual_cols, merge_cols,
                               drop_cols),
                textual_cols)

\* JsonVisualizer.process_dataframe(df, textual_cols, merge_cols, drop_cols)
process_dataframe(d, textual_cols, merge_cols, drop_cols) ==
    ProcessCopy(d, DfCopy(d),
                IF textual_cols.none THEN DefaultTextualCols ELSE textual_cols.v,
                merge_cols,
                IF drop_cols.none THEN <<>> ELSE drop_cols.v)
\* ======================================================================
\*                     visualize  (SpecTransform)
\* ======================================================================
MaxRecords == 2

\* The columns input files are made of, and the records: a record gives each of
\* these columns a value (Records[k][c] belongs to column ColumnUniverse[c]).
ColumnUniverse ==
    << <<"i", "d">>, <<"i", "m", "a", "g", "e", "_", "c", "a", "p", "t", "i", "o", "n">>, <<"m", "e", "t", "a">>, <<"A", "n", "s", "w", "e", "r">>, <<"G", "r", "a", "p", "h">>, <<"i", "d", " ", "&",
                                                                     " ", "m", "e", "t", "a">> >>

Records ==
    { << Int_(1), Str(<<"h", "t", "t", "p", ":", "/", "/", "h", "/", "a", ".", "p", "n", "g">>), List(<<1>>), Str(<<"$", "x", "$">>), Str(KnownPath),
         Str(<<"k">>) >>,
      << Int_(12), Str(KnownPath), Str(<<" ", "m">>), None, Str(<<>>), Str(<<"<", "i", "m", "g",
                                                                       ">">>) >>,
      << Int_(3), None, List(<<>>), Str(<<" ", "a", "\n", "<", "t", "h", "i", "n", "k", ">">>), Str(<<"g", "o", "n", "e", ".",
                                                                "p", "n", "g">>), None >> }

\* which columns of the universe a file has, in the file's order
ColumnLists == { <<1, 2, 3>>, <<3, 4>>, <<5, 1, 4>>, <<6, 1, 3>> }

\* a file pd.read_json cannot parse (ValueError), and a path it cannot open
Malformed == [ok |-> FALSE, exc |-> "ValueError", columns |-> <<>>, data |-> <<>>]
Unreadable == [ok |-> FALSE, exc |-> "FileNotFoundError", columns |-> <<>>, data |-> <<>>]

\* a well-formed file: no record gives a frame without columns
WellFormed(cl, recs) ==
    [ok |-> TRUE,
     exc |-> "none",
     columns |-> IF recs = <<>> THEN <<>> ELSE [k \in 1..Len(cl) |-> ColumnUniverse[cl[k]]],
     data |-> [r \in 1..Len(recs) |-> [k \in 1..Len(cl) |-> recs[r][cl[k]]]]]

\* the record lists of the files: at most MaxRecords records, no record twice
RecordLists ==
    {recs \in SeqsUpTo(Records, MaxRecords) :
        \A a, b \in 1..Len(recs) : a # b => recs[a] # recs[b]}

InputFiles ==
    {Malformed, Unreadable} \cup {WellFormed(cl, recs) : cl \in ColumnLists, recs \in RecordLists}

\* textual_cols, merge_cols, drop_cols as a caller gives them
OptionSets ==
    { [textual_cols |-> NoneArg, merge_cols |-> NoneArg, drop_cols |-> NoneArg],
      [textual_cols |-> ListArg(<< <<"m", "e", "t", "a">> >>),
       merge_cols |-> ListArg(<< <<"i", "d">>, <<"m", "e", "t", "a">> >>),
       drop_cols |-> NoneArg],
      [textual_cols |-> NoneArg,
       merge_cols |-> ListArg(<< <<"m", "e", "t", "a">>, <<"n", "o", "p", "e">>, <<"i", "m", "a", "g", "e", "_", "c",
                                                       "a", "p", "t", "i", "o", "n">> >>),
       drop_cols |-> ListArg(<< <<"n", "o", "p", "e">>, <<"A", "n", "s", "w", "e", "r">> >>)],
      [textual_cols |-> ListArg(<< <<"g", "r", "a", "p", "h">> >>),
       merge_cols |-> ListArg(<< <<"A", "n", "s", "w", "e", "r">>, <<"G", "r", "a", "p", "h">> >>),
       drop_cols |-> ListArg(<< <<"A", "n", "s", "w", "e", "r", " ", "&", " ", "G", "r",
                                  "a", "p", "h">> >>)],
      [textual_cols |-> ListArg(<<>>),
       merge_cols |-> ListArg(<< <<"i", "d">> >>),
       drop_cols |-> ListArg(<< <<"i", "d">>, <<"m", "e", "t", "a">> >>)],
      [textual_cols |-> NoneArg,
       merge_cols |-> ListArg(<< <<"i", "d">>, <<"i", "d">> >>),
       drop_cols |-> NoneArg] }

\* sample_size as a caller gives it: 0 (also what None does: no sampling) or a
\* number that some file exceeds and some does not
SampleSizes == 0..(MaxRecords - 1)

NoHtml ==
    [made |-> FALSE, exc |-> "none", table |-> NoFrame, rows |-> 0, cols |-> 0,
     original_data |-> NoFrame]
NoFile == [exists |-> FALSE, content |-> NoHtml]

\* an output file that an earlier run left
OldFile == [exists |-> TRUE, content |-> NoHtml]

\* what a run meets: the file system and the network the image cells are read
\* from, and whether the output directory (dir) and the output file (out) are
\* there already
TransformEnvs ==
    { [fs |-> [exc |-> "none", b |-> <<137, 80, 78, 71>>],
       net |-> [exc |-> "none", b |-> <<255, 216>>],
       dir |-> FALSE, out |-> NoFile],
      [fs |-> [exc |-> "FileNotFoundError", b |-> <<>>],
       net |-> [exc |-> "HTTPError", b |-> <<>>],
       dir |-> TRUE, out |-> OldFile],
      [fs |-> [exc |-> "IsADirectoryError", b |-> <<>>],
       net |-> [exc |-> "none", b |-> <<>>],
       dir |-> TRUE, out |-> NoFile] }

NoCall == [which |-> "none", before |-> NoFrame, after |-> NoFrame, passes |-> <<>>]

\* pd.read_json(input_file, ...): a frame with the row labels 0..n-1
read_json(file) ==
    [id |-> 1, columns |-> file.columns, index |-> [r \in 1..Len(file.data) |-> r - 1],
     data |-> file.data]

\* the orders in which df.sample(n) can draw n of the m rows
Draws(m, n) == {s \in [1..n -> 1..m] : \A a, b \in 1..n : a # b => s[a] # s[b]}

\* df.sample(n, random_state=42) with the rows drawn in the order s
SampleRows(d, s) ==
    [id |-> d.id + 1, columns |-> d.columns,
     index |-> [k \in 1..Len(s) |-> d.index[s[k]]],
     data |-> [k \in 1..Len(s) |-> d.data[s[k]]]]

\* JsonVisualizer.generate_html(df, title, original_data): the frame rendered as the
\* table, the two badges, and original_data.to_json(orient='split') embedded as
\* originalDataObj; to_json is called whatever original_data is, and None has no
\* such attribute
generate_html(d, original_data) ==
    IF original_data = None
    THEN [NoHtml EXCEPT !.exc = "AttributeError"]
    ELSE [made |-> TRUE,
          exc |-> "none",
          table |-> d,
          rows |-> Len(d.data),
          cols |-> Len(d.columns),
          original_data |-> original_data]

TransformFrame ==
    UNCHANGED <<clientVars, resampleControls, imageVars, textVars, envVars,
                inputFile, opts>>

LoadNeverFails(file) == FALSE

\* pd.read_json raises on the file; visualize catches nothing
LoadFails(file) == ~file.ok

\* original_df = JsonVisualizer.read_json(input_file)
ReadJson ==
    /\ TransformFrame
    /\ pc = "start"
    /\ IF LoadFails(inputFile)
       THEN /\ pc' = "raised"
            /\ raised' = inputFile.exc
            /\ UNCHANGED original_df
       ELSE /\ original_df' = read_json(inputFile)
            /\ pc' = "loaded"
            /\ UNCHANGED raised
    /\ UNCHANGED <<df, lastCall, html_content, outDir, outFile>>

\* df = original_df.copy(); if sample_size and sample_size < len(df): df = df.sample(..)
Sample ==
    /\ TransformFrame
    /\ pc = "loaded"
    /\ IF opts.sample_size # 0 /\ opts.sample_size < Len(original_df.data)
       THEN \E s \in Draws(Len(original_df.data), opts.sample_size) :
               df' = SampleRows(DfCopy(original_df), s)
       ELSE df' = DfCopy(original_df)
    /\ pc' = "sampled"
    /\ UNCHANGED <<original_df, lastCall, raised, html_content, outDir, outFile>>

\* the assignment of what process_dataframe(df, ...) returned, or its exception
DisplayProcessed(r) ==
    /\ lastCall' = [which |-> "display", before |-> df, after |-> r.arg, passes |-> r.passes]
    /\ IF r.exc = "none"
       THEN df' = r.df /\ pc' = "processed_df" /\ UNCHANGED raised
       ELSE raised' = r.exc /\ pc' = "raised" /\ UNCHANGED df

\* df = JsonVisualizer.process_dataframe(df, ...)
ProcessDisplay ==
    /\ TransformFrame
    /\ pc = "sampled"
    /\ DisplayProcessed(process_dataframe(df, opts.textual_cols, opts.merge_cols,
                                          opts.drop_cols))
    /\ UNCHANGED <<original_df, html_content, outDir, outFile>>

\* the assignment of what process_dataframe(original_df, ...) returned, or its
\* exception
FullProcessed(r) ==
    /\ lastCall' = [which |-> "full", before |-> original_df, after |-> r.arg,
                    passes |-> r.passes]
    /\ IF r.exc = "none"
       THEN original_df' = r.df /\ pc' = "processed_all" /\ UNCHANGED raised
       ELSE raised' = r.exc /\ pc' = "raised" /\ UNCHANGED original_df

\* original_df = JsonVisualizer.process_dataframe(original_df, ...)
ProcessFull ==
    /\ TransformFrame
    /\ pc = "processed_df"
    /\ FullProcessed(process_dataframe(original_df, opts.textual_cols, opts.merge_cols,
                                       opts.drop_cols))
    /\ UNCHANGED <<df, html_content, outDir, outFile>>

\* html_content = JsonVisualizer.generate_html(df, title=title, original_data=original_df)
GenerateHtml ==
    /\ TransformFrame
    /\ pc = "processed_all"
    /\ html_content' = generate_html(df, original_df)
    /\ pc' = IF html_content'.exc = "none" THEN "rendered" ELSE "raised"
    /\ raised' = html_content'.exc
    /\ UNCHANGED <<df, original_df, lastCall, outDir, outFile>>

\* os.makedirs(os.path.dirname(os.path.abspath(output_file)), exist_ok=True)
MakeDirs ==
    /\ TransformFrame
    /\ pc = "rendered"
    /\ outDir' = TRUE
    /\ pc' = "dirs"
    /\ UNCHANGED <<df, original_df, lastCall, raised, html_content, outFile>>

\* with open(output_file, 'w', encoding='utf-8') as f: f.write(html_content)
WriteFile ==
    /\ TransformFrame
    /\ pc = "dirs"
    /\ outFile' = [exists |-> TRUE, content |-> html_content]
    /\ pc' = "written"
    /\ UNCHANGED <<df, original_df, lastCall, raised, html_content, outDir>>

InitTransform ==
    /\ PageIdle
    /\ imgArg = None /\ imgOut = NotCalled
    /\ TextIdle
    /\ \E e \in TransformEnvs :
          fs = e.fs /\ net = e.net /\ outDir = e.dir /\ outFile = e.out
    /\ inputFile \in InputFiles
    /\ \E o \in OptionSets, n \in SampleSizes :
          opts = [sample_size |-> n, textual_cols |-> o.textual_cols,
                  merge_cols |-> o.merge_cols, drop_cols |-> o.drop_cols]
    /\ pc = "start"
    /\ df = NoFrame /\ original_df = NoFrame /\ lastCall = NoCall
    /\ raised = "none" /\ html_content = NoHtml

NextTransform ==
    \/ ReadJson
    \/ Sample
    \/ ProcessDisplay
    \/ ProcessFull
    \/ GenerateHtml
    \/ MakeDirs
    \/ WriteFile

SpecTransform == InitTransform /\ [][NextTransform]_vars

\* ======================================================================
\*                 process_textual_content  (SpecText)
\* ======================================================================
MaxTextLen == 5

\* the characters the short texts are made of
TextAlphabet == {"$", "x", " ", "\n"}

\* the values process_textual_content is called with: short texts, longer ones (fenced blocks, tags, the two characters
\* backslash and n, spans next to each other) and values that are not strings
TextArgs ==
    {Str(s) : s \in SeqsUpTo(TextAlphabet, MaxTextLen)}
        \cup {Str(s) : s \in
    { <<"$", "$", "x", "$", "$">>, <<"a", " ", "$", "$", "x", " ", "y", "$", "$", " ", "b">>, <<"$", "a", "$", "$", "b", "$">>, <<"$", "a", "$", " ", "a", "n", "d", " ",
                                                "$", "b", "$">>, <<"c", "o", "s", "t", "s",
                                                                 " ", "$", "5", ",", " ",
                                                                 "s", "o", " ", "$", "x",
                                                                 "$">>,
      <<BackTick, BackTick, BackTick, "$", "x", "$", BackTick, BackTick, BackTick, " ",
        "$", "y", "$">>, <<BackTick, BackTick, BackTick, "m", "a", "r", "k", "d", "o", "w",
                           "n", "\n", "$", "x", "$", "\n", BackTick, BackTick, BackTick>>, <<"<", "t", "h", "i", "n", "k", ">",
                                                      "$", "x", "$", "<", "/", "t", "h",
                                                      "i", "n", "k", ">">>,
      <<"$", "a", "\n", "b", "$">>, <<"$", "a", "\\", "n", "b", "$">>, <<" ", "$", "x", "$", " ", "\n">> }}
        \cup {Int_(5), None, List(<<1>>)}

\* process_textual_content(text), as process_dataframe calls it
CallProcessText ==
    /\ UNCHANGED <<clientVars, resampleControls, imageVars, envVars, pyVars, textArg>>
    /\ ~textOut.called
    /\ textOut' = [called |-> TRUE, is_markdown |-> FALSE,
                   val |-> process_textual_content(textArg, FALSE)]

\* process_textual_content(text, is_markdown=True)
CallProcessMarkdown ==
    /\ UNCHANGED <<clientVars, resampleControls, imageVars, envVars, pyVars, textArg>>
    /\ ~textOut.called
    /\ textOut' = [called |-> TRUE, is_markdown |-> TRUE,
                   val |-> process_textual_content(textArg, TRUE)]

InitText ==
    /\ textArg \in TextArgs
    /\ textOut = [called |-> FALSE, is_markdown |-> FALSE, val |-> None]
    /\ imgArg = "none" /\ imgOut = "none" /\ fs = "none" /\ net = "none"
    /\ PageIdle
    /\ PythonIdle

NextText ==
    \/ CallProcessText
    \/ CallProcessMarkdown

SpecText == InitText /\ [][NextText]_vars

\* ======================================================================
\*             generate_html called on its own  (SpecRender)
\* ======================================================================
\* the frames a caller hands over: those read_json gives for the input files
RenderFrames == {read_json(f) : f \in {g \in InputFiles : g.ok}}

\* JsonVisualizer.generate_html(df) or generate_html(df, original_data=...):
\* original_df holds the original_data argument, None when it is left out
CallGenerateHtml ==
    /\ UNCHANGED <<clientVars, resampleControls, imageVars, textVars, envVars>>
    /\ pc = "call"
    /\ html_content' = generate_html(df, original_df)
    /\ pc' = IF html_content'.exc = "none" THEN "returned" ELSE "raised"
    /\ raised' = html_content'.exc
    /\ UNCHANGED <<inputFile, opts, df, original_df, lastCall, outDir, outFile>>

\* $(document).ready of the returned document: originalDataObj is the embedded
\* object, the table shows the rendered frame, every column visible; the resample
\* controls are added if originalDataObj, its columns and its data are truthy,
\* and an object and an array are truthy in JavaScript, empty or not
OpenPage ==
    /\ UNCHANGED <<imageVars, textVars, envVars, pyVars>>
    /\ pc = "returned"
    /\ jsPc = "idle"
    /\ html_content.made
    /\ originalDataObj = <<>> /\ tableRows = <<>> /\ colVisible = <<>>
    /\ originalDataObj' = <<html_content.original_data>>
    /\ tableRows' = <<html_content.table.data>>
    /\ badge' = html_content.rows
    /\ colVisible' = [c \in 0..(html_content.cols - 1) |-> TRUE]
    /\ btnClass' = [c \in 0..(html_content.cols - 1) |-> {"btn-primary"}]
    /\ resampleControls' =
          (/\ Len(originalDataObj') > 0
           /\ Len(originalDataObj'[1].columns) >= 0
           /\ Len(originalDataObj'[1].data) >= 0)
    /\ jsPc' = "ready"
    /\ UNCHANGED <<resampleSize, size, indices, i, sampledIndices>>

InitRender ==
    /\ PageIdle
    /\ imgArg = "none" /\ imgOut = "none" /\ fs = "none" /\ net = "none"
    /\ TextIdle
    /\ pc = "call"
    /\ inputFile = "none" /\ opts = "none"
    /\ df \in RenderFrames
    /\ original_df \in RenderFrames \cup {None}
    /\ lastCall = NoCall
    /\ raised = "none" /\ html_content = NoHtml
    /\ outDir = FALSE /\ outFile = NoFile

NextRender ==
    \/ CallGenerateHtml
    \/ OpenPage

SpecRender == InitRender /\ [][NextRender]_vars

\* ---------------------------------------------------------------- claims
\* the requested size k is in range: 1 <= k <= total rows
ValidK(k) == ~k.nan /\ 1 <= k.v /\ k.v <= totalRows

IsPermutation(ix) ==
    /\ DOMAIN ix = 0..(totalRows - 1)
    /\ Range(ix) = 0..(totalRows - 1)

\* C1: inside resampleData the index array is a permutation of 0..total-1 before and
\* after every swap; once resampleData has run with a size k, 1 <= k <= total, the
\* table holds exactly k rows, row n being the full dataset's row at index
\* sampledIndices[n], the k indices pairwise distinct (all of 0..total-1 when
\* k = total), and the badge shows k.
C1_ResampleExact ==
    /\ jsPc = "shuffle" => IsPermutation(indices)
    /\ (jsPc = "idle" /\ ValidK(size)) =>
          /\ Len(tableRows) = size.v
          /\ badge = size.v
          /\ DOMAIN sampledIndices = 0..(size.v - 1)
          /\ \A a, b \in DOMAIN sampledIndices :
                a # b => sampledIndices[a] # sampledIndices[b]
          /\ \A a \in DOMAIN sampledIndices :
                /\ sampledIndices[a] \in 0..(totalRows - 1)
                /\ tableRows[a + 1] = originalDataObj[sampledIndices[a] + 1]
          /\ size.v = totalRows => Range(sampledIndices) = 0..(totalRows - 1)

\* a resample of the whole dataset, at least two rows, that came out reordered
C1_Witness ==
    /\ jsPc = "idle"
    /\ ValidK(size)
    /\ size.v = totalRows
    /\ totalRows >= 2
    /\ sampledIndices # IdentityIndices

\* C2: a click on Resample while the field parses to 0, to a negative number, to
\* more than the total row count or to no number at all ends the handler at once:
\* displayed rows, badge, column visibility, buttons and the embedded dataset are
\* as before.
C2_InvalidResampleNoOp ==
    [][(resampleData /\ ~ValidK(parseInt(resampleSize))) =>
          /\ jsPc' = "idle"
          /\ UNCHANGED <<tableRows, badge, colVisible, btnClass, originalDataObj,
                         sampledIndices>>]_vars

\* Resample was clicked with 9 in the field (more than any total here), after an
\* earlier resample had changed the table and with a column hidden
C2_Witness ==
    /\ jsPc = "idle"
    /\ resampleSize = <<"9">>
    /\ size = Num(9)
    /\ tableRows # originalDataObj
    /\ \E c \in Cols : ~colVisible[c]

\* a per-column button shows the active style exactly when its column is visible
\* and the inactive style exactly when it is hidden
ButtonMatches(vis, cls) ==
    /\ "btn-primary" \in cls <=> vis
    /\ "btn-secondary" \in cls <=> ~vis

\* C3: a click on Toggle All hides every column if every column was visible and
\* otherwise shows every column, and afterwards every per-column button's style
\* matches its column's visibility.
C3_ToggleAllSyncsButtons ==
    [][ToggleAllClick =>
          /\ \A c \in Cols : colVisible'[c] = ~allVisible
          /\ \A c \in Cols : ButtonMatches(colVisible'[c], btnClass'[c])]_vars

\* what does hold of Toggle All: the visibility part
ToggleAllVisibility ==
    [][ToggleAllClick => \A c \in Cols : colVisible'[c] = ~allVisible]_vars

\* ------------------------------------------------- claims on SpecImage
HasUrlPrefix(x) ==
    x.t = "str" /\ (StartsWith(x.s, <<"h", "t", "t", "p", ":", "/", "/">>) \/ StartsWith(x.s, <<"h", "t", "t", "p",
                                                                      "s", ":", "/", "/">>))

IsPlaceholder(out) ==
    out.exc = "none" /\ out.val \in {Str(NoImageAvailable), Str(ImageNotFound)}

\* C4: image_to_html of an http:// or https:// string whose fetch fails (no
\* connection, or a non-success status) returns a placeholder fragment and raises
\* nothing.
C4_FetchFailurePlaceholder ==
    (imgOut.fn = "image_to_html" /\ HasUrlPrefix(imgArg) /\ net.exc # "none")
        => IsPlaceholder(imgOut)

\* a non-empty string without URL prefix that names no file
NonexistentLocalPath(x) ==
    /\ x.t = "str"
    /\ x.s # <<>>
    /\ ~HasUrlPrefix(x)
    /\ (x.s # KnownPath \/ fs.exc = "FileNotFoundError")

UnsupportedOrEmpty(x) ==
    \/ x.t \notin {"str", "Path", "BytesIO", "Image"}
    \/ x = Str(<<>>)

\* the bytes the argument stands for, <<>> when it yields none
BytesObtained(x) ==
    CASE HasUrlPrefix(x) -> IF net.exc = "none" THEN net.b ELSE <<>>
      [] x.t \in {"str", "Path"} /\ ~HasUrlPrefix(x) ->
            IF x.s = KnownPath /\ fs.exc = "none" THEN fs.b ELSE <<>>
      [] x.t \in {"BytesIO", "Image"} -> x.n
      [] OTHER -> <<>>

IsImgFragment(out) == out.exc = "none" /\ StartsWith(out.val.s, <<"<", "i", "m", "g", " ">>)

\* C5: image_to_html of a nonexistent local path raises nothing and returns the
\* "Image not found" fragment; of an unsupported type or an empty value it returns
\* the "No image available" fragment; and it returns an <img> data-URI fragment
\* only when a non-empty byte sequence was obtained, which the fragment encodes.
C5_MissingFilePlaceholder ==
    imgOut.fn = "image_to_html" =>
        /\ NonexistentLocalPath(imgArg) =>
              (imgOut.exc = "none" /\ imgOut.val = Str(ImageNotFound))
        /\ UnsupportedOrEmpty(imgArg) =>
              (imgOut.exc = "none" /\ imgOut.val = Str(NoImageAvailable))
        /\ IsImgFragment(imgOut) =>
              /\ BytesObtained(imgArg) # <<>>
              /\ imgOut.val.s = ImgTemplate(b64encode(BytesObtained(imgArg)), DefaultWidth)

\* image_to_html has returned for a path that names no file
C5_Witness ==
    /\ imgOut.fn = "image_to_html"
    /\ imgArg = Str(KnownPath)
    /\ fs.exc = "FileNotFoundError"
    /\ imgOut.val = Str(ImageNotFound)

\* ======================================================================
\*                     Properties of generate_html
\* ======================================================================
\* C13: generate_html called with no full dataset (original_data left at its
\* default None) returns a complete document, and the page of that document
\* installs no resample control; called with a full dataset, the page installs
\* the resample control.
C13_ResampleOnlyWithFullDataset ==
    /\ (pc # "call" /\ original_df = None) =>
          /\ pc = "returned" /\ raised = "none" /\ html_content.made
          /\ ~resampleControls
    /\ (pc = "returned" /\ jsPc = "ready" /\ original_df # None) => resampleControls

\* ======================================================================
\*                    Properties of the text normaliser
\* ======================================================================
\* the text the call received, as str(text) gives it
GivenText == IF textArg.t # "str" THEN PyStr(textArg) ELSE textArg.s

\* the text the dollar rewriting works on: block extracted, stripped, newlines
\* and tags replaced
Prepared(is_markdown) ==
    EscapeTags(Replace(Replace(Strip(ExtractBlock(GivenText, is_markdown)),
                               <<"\n">>, <<"<", "b", "r", ">">>), <<"\\", "n">>, <<"<", "b", "r", ">">>),
               special_tags)

\* the same replacements applied to the inside of a span
PreparedSpan(x) ==
    EscapeTags(Replace(Replace(x, <<"\n">>, <<"<", "b", "r", ">">>), <<"\\", "n">>, <<"<", "b", "r", ">">>),
               special_tags)

\* the positions of the dollar signs of s
Dollars(s) == {k \in 1..Len(s) : s[k] = "$"}

\* the dollar signs of s paired off from the left: the 1st, 3rd, ... opens a
\* span, the 2nd, 4th, ... closes it, a last one without partner stays
RECURSIVE PairedFrom(_, _, _, _)
PairedFrom(s, k, rank, total) ==
    IF k > Len(s) THEN <<>>
    ELSE IF s[k] # "$" THEN <<s[k]>> \o PairedFrom(s, k + 1, rank, total)
    ELSE IF rank % 2 = 0
         THEN (IF rank + 1 = total THEN <<"$">> ELSE <<"\\", "(", " ">>)
                  \o PairedFrom(s, k + 1, rank + 1, total)
         ELSE <<" ", "\\", ")">> \o PairedFrom(s, k + 1, rank + 1, total)

Paired(s) == PairedFrom(s, 1, 0, Cardinality(Dollars(s)))

\* the spans $x$ of s with x not empty and free of dollar signs
Spans(s) ==
    {ab \in Dollars(s) \X Dollars(s) :
        /\ ab[1] + 1 < ab[2]
        /\ \A k \in (ab[1] + 1)..(ab[2] - 1) : s[k] # "$"}

\* C12 as stated: for every span $x$ of the input, the output contains \( x \)
\* and no literal $x$.
C12_EverySpanRewritten ==
    textOut.called =>
        \A ab \in Spans(GivenText) :
            LET x == PreparedSpan(Sub(GivenText, ab[1] + 1, ab[2] - 1))
            IN  /\ Contains(textOut.val.s, <<"\\", "(", " ">> \o x \o <<" ", "\\", ")">>)
                /\ ~Contains(textOut.val.s, <<"$">> \o x \o <<"$">>)

\* C12: process_textual_content collapses every $$ of the prepared text to $ and
\* then pairs the dollar signs off from the left: an opening one becomes "\( ",
\* a closing one " \)", every other character is kept and a last dollar without
\* partner stays. So the output holds a dollar sign exactly when the collapsed
\* text has an odd number of them, and a text with the single span $x$ or $$x$$
\* comes out as \( x \) with no dollar sign left.
C12_DollarsPairedFromLeft ==
    textOut.called =>
        LET collapsed == Replace(Prepared(textOut.is_markdown), <<"$", "$">>, <<"$">>)
            out == textOut.val.s
        IN  /\ textOut.val.t = "str"
            /\ out = Paired(collapsed)
            /\ Cardinality(Dollars(out)) = Cardinality(Dollars(collapsed)) % 2
            /\ \A ab \in Spans(collapsed) :
                  Dollars(collapsed) = {ab[1], ab[2]} =>
                      out = Sub(collapsed, 1, ab[1] - 1) \o <<"\\", "(", " ">>
                              \o Sub(collapsed, ab[1] + 1, ab[2] - 1) \o <<" ", "\\", ")">>
                              \o Sub(collapsed, ab[2] + 1, Len(collapsed))

C12_Witness ==
    /\ textOut.called
    /\ textArg = Str(<<"a", " ", "$", "$", "x", " ", "y", "$", "$", " ", "b">>)
    /\ textOut.val = Str(<<"a", " ", "\\", "(", " ", "x", " ", "y", " ", "\\", ")", " ", "b">>)

\* ======================================================================
\*                    CLAIMS ABOUT process_dataframe / visualize
\* ======================================================================
\* the call df = process_dataframe(df, ...) has just returned (with sample_size 0
\* its argument is a copy of the full frame)
Returned == pc = "processed_df"

\* the frame that call was given and the frame it returned
Given == lastCall.before
Result == df

\* frame d reduced to its row r
SingleRow(d, r) == [d EXCEPT !.index = <<d.index[r]>>, !.data = <<d.data[r]>>]

\* C6: process_dataframe returns a frame with the rows of its argument, as many
\* and in the same order (the same row labels), row i of the result being what
\* the call makes of row i of the argument alone; and the argument object is,
\* after the call (returned or raised), what it was before it.
C6_RowsKeptInputUntouched ==
    /\ lastCall.which # "none" => lastCall.after = lastCall.before
    /\ pc = "processed_all" =>
          /\ original_df.index = Given.index
          /\ Len(original_df.data) = Len(Given.data)
    /\ Returned =>
          /\ Result.index = Given.index
          /\ Len(Result.data) = Len(Given.data)
          /\ \A r \in Rows(Given) :
                Result.data[r] =
                    process_dataframe(SingleRow(Given, r), opts.textual_cols,
                                      opts.merge_cols, opts.drop_cols).df.data[1]

C6_Witness ==
    /\ pc = "processed_df"
    /\ Len(df.data) = 2
    /\ df.index = <<0, 1>>
    /\ df.columns # Given.columns
    /\ df.id # Given.id

\* the requested merge names that are columns of the argument
MergePresent ==
    IF opts.merge_cols.none THEN <<>> ELSE PresentIn(Given, opts.merge_cols.v)

MergedName == Join(<<" ", "&", " ">>, MergePresent)

\* the call's result had neither merge nor drop been requested, and had only no
\* drop been requested
Plain == process_dataframe(Given, opts.textual_cols, NoneArg, NoneArg).df
Undropped == process_dataframe(Given, opts.textual_cols, opts.merge_cols, NoneArg).df

\* C7: with at least 2 of the merge names present, the result (before any drop)
\* has the column named by the present names joined with " & " exactly once and
\* first, its cells the str() of the row's normalized source cells joined with
\* <br>, no source column left and the other columns as without a merge; with
\* fewer than 2 present, columns and cells are those of the call without a merge.
C7_MergeColumn ==
    Returned =>
        LET present == MergePresent
            name == MergedName
            plain == Plain
            out == Undropped
        IN  IF Len(present) >= 2
            THEN /\ out.columns[1] = name
                 /\ Cardinality({c \in ColIdx(out) : out.columns[c] = name}) = 1
                 /\ \A k \in 1..Len(present) : ~HasColumn(out, present[k])
                 /\ Tail(out.columns) =
                        SelectSeq(plain.columns,
                                  LAMBDA n : ~InList(n, present) /\ n # name)
                 /\ \A r \in Rows(Given) :
                        /\ out.data[r][1] =
                              Str(Join(<<"<", "b", "r", ">">>,
                                       [k \in 1..Len(present) |->
                                           PyStr(plain.data[r][ColPos(plain, present[k])])]))
                        /\ \A c \in 2..Len(out.columns) :
                              out.data[r][c] = plain.data[r][ColPos(plain, out.columns[c])]
                 /\ opts.drop_cols.none => Result = [out EXCEPT !.id = Result.id]
            ELSE /\ out.columns = plain.columns
                 /\ out.data = plain.data

C7_Witness ==
    /\ pc = "processed_df"
    /\ Len(MergePresent) >= 2
    /\ opts.drop_cols.none
    /\ Len(df.data) >= 1
    /\ Len(df.columns) >= 2
    /\ df.columns[1] = MergedName

\* the requested drop names
DropNames == IF opts.drop_cols.none THEN <<>> ELSE opts.drop_cols.v

\* C8: the drop never raises for an absent name; the result's columns are the
\* columns left by the merge step without those named in drop_cols, in the order
\* they had, with the cells they had; with only absent names the result is the
\* result of the call without a drop.
C8_DropPresentOnly ==
    /\ raised # "KeyError"
    /\ Returned =>
          LET kept == Undropped
          IN  /\ Result.columns = SelectSeq(kept.columns, LAMBDA n : ~InList(n, DropNames))
              /\ \A r \in Rows(Given) : \A c \in ColIdx(Result) :
                    Result.data[r][c] = kept.data[r][ColPos(kept, Result.columns[c])]
              /\ (\A k \in 1..Len(DropNames) : ~HasColumn(kept, DropNames[k])) =>
                    /\ Result.columns = kept.columns
                    /\ Result.data = kept.data

C8_Witness ==
    /\ pc = "processed_df"
    /\ \E k \in 1..Len(DropNames) : ~HasColumn(Given, DropNames[k])
    /\ \E k \in 1..Len(DropNames) : HasColumn(Given, DropNames[k])
    /\ Len(df.columns) >= 1
    /\ Len(df.columns) < Len(Given.columns)
    /\ Len(df.data) >= 1

\* the row of frame d that has the row label l
RowLabelled(d, l) == d.data[CHOOSE k \in Rows(d) : d.index[k] = l]

\* C9: once visualize has processed both frames, the display frame and the full
\* frame have the same columns in the same order, and every row of the display
\* frame is, cell for cell, the row of the full frame that has its row label
\* (the row made from the same input record).
C9_DisplayMatchesFull ==
    pc \in {"processed_all", "rendered", "dirs", "written"} =>
        /\ df.columns = original_df.columns
        /\ \A k \in Rows(df) :
              /\ \E j \in Rows(original_df) : original_df.index[j] = df.index[k]
              /\ df.data[k] = RowLabelled(original_df, df.index[k])

\* the sampled rows of some column hold no list while another row of the file does
C9_Witness ==
    /\ pc = "processed_all"
    /\ Len(df.data) >= 1
    /\ Len(df.data) < Len(original_df.data)
    /\ \E c \in ColIdx(read_json(inputFile)) :
          /\ ColumnHasStructured(read_json(inputFile), c)
          /\ \A k \in Rows(df) :
                ~IsStructured(RowLabelled(read_json(inputFile), df.index[k])[c])

\* the columns of the argument whose name matches the image heuristic and the
\* textual keyword "caption"
ImageAndCaption ==
    {c \in ColIdx(Given) :
        IsImageColumn(Given.columns[c]) /\ Contains(Lower(Given.columns[c]), <<"c", "a",
                                                                               "p", "t",
                                                                               "i", "o", "n">>)}

\* what the image normalizer returns for the cells of the argument's image columns
ImageCells == ImageResults(StructuredPass(Given))

\* C10 as stated: on a column whose name matches the image heuristic and a
\* textual keyword the textual normalizer is not run, and the final cells are the
\* output of the image normalizer.
C10_NotTextProcessed ==
    Returned =>
        LET cells == ImageCells
        IN  \A c \in ImageAndCaption :
                /\ ~InList("textual", lastCall.passes[c])
                /\ HasColumn(Result, Given.columns[c]) =>
                      \A r \in Rows(Given) :
                          Result.data[r][ColPos(Result, Given.columns[c])] = cells[r][c].val

\* C10: on a column whose name matches the image heuristic and a textual keyword
\* the image normalizer runs and then the textual normalizer runs on its output,
\* which it leaves as it is: the final cells are the output of the image
\* normalizer.
C10_ImageThenTextIdentity ==
    Returned =>
        LET cells == ImageCells
        IN  \A c \in ImageAndCaption :
                /\ \E a, b \in 1..Len(lastCall.passes[c]) :
                      /\ a < b
                      /\ lastCall.passes[c][a] = "image"
                      /\ lastCall.passes[c][b] = "textual"
                /\ \A r \in Rows(Given) :
                      process_textual_content(cells[r][c].val, FALSE) = cells[r][c].val
                /\ HasColumn(Result, Given.columns[c]) =>
                      \A r \in Rows(Given) :
                          Result.data[r][ColPos(Result, Given.columns[c])] = cells[r][c].val

C10_Witness ==
    /\ pc = "processed_df"
    /\ ImageAndCaption # {}
    /\ \E c \in ImageAndCaption :
          /\ HasColumn(df, Given.columns[c])
          /\ \E r \in Rows(df) :
                StartsWith(df.data[r][ColPos(df, Given.columns[c])].s, <<"<", "i", "m",
                                                                         "g", " ", "s",
                                                                         "r", "c", "=">>)

\* C11: visualize creates the output directory and writes the output file only
\* once the input is loaded, both frames are processed and the document is
\* rendered; and when loading the input fails, the run ends with the error
\* read_json raised, the output directory and the output file left as they were.
C11_OutputOnlyAfterRender ==
    [][/\ (outDir' # outDir \/ outFile' # outFile) =>
             /\ pc \in {"rendered", "dirs"}
             /\ inputFile.ok
             /\ lastCall.which = "full"
             /\ html_content.made
             /\ html_content = generate_html(df, original_df)
       /\ outFile' # outFile => outDir /\ outFile' = [exists |-> TRUE, content |-> html_content]
       /\ ~inputFile.ok =>
             /\ pc' = "raised"
             /\ raised' = inputFile.exc
             /\ raised' # "none"
             /\ UNCHANGED <<outDir, outFile, html_content>>]_vars

\* loading failed and the output file of an earlier run is still there
C11_Witness ==
    /\ ~inputFile.ok
    /\ pc = "raised"
    /\ raised = "ValueError"
    /\ outFile = OldFile

====
